---- MODULE Spec2Model ----
(***************************************************************************)
(* Model of leptos/src/children.rs: the children wrapper types (Children,  *)
(* ChildrenFn, ChildrenFnMut, BoxedChildrenFn, TypedChildren, ViewFn), the *)
(* ToChildren conversions and the invocation of the wrappers.              *)
(*                                                                         *)
(* A closure is identified by a number; the wrappers are allocations (Box  *)
(* or Arc) on a heap, reached through holders (the owning values).  Rust's *)
(* move semantics are the guards: a moved or consumed value has no holder  *)
(* through which it could be used again.                                   *)
(***************************************************************************)
EXTENDS Integers, Sequences, FiniteSets

\* ---------------------------------------------------------------- bounds
NumClosures == 2
MaxAllocs == 2
MaxHolders == 2
MaxCalls == 3

Closures == 1..NumClosures
Allocs == 1..MaxAllocs
Holders == 1..MaxHolders

\* The closure `|| ().into_any()` of ViewFn::default is no user closure.
UnitClosure == 0

VARIABLES
    where,      \* closure -> "user" | "moved" (owned by a wrapper) | "dropped"
    cell,       \* closure -> the interior-mutable state the closure captures
    runs,       \* closure -> how many times the closure's body has run
    heap,       \* allocation -> [kind, f, strong, taken] (a Box or an Arc)
    holder,     \* holder -> [st, a, parent]: an owning value of a wrapper
    results,    \* the views returned by the invocations, in order
    effects     \* the side effects of the closures' bodies, in order

vars == <<where, cell, runs, heap, holder, results, effects>>

\* ------------------------------------------------------------- the types
Children == "Children"
ChildrenFn == "ChildrenFn"
ChildrenFnMut == "ChildrenFnMut"
BoxedChildrenFn == "BoxedChildrenFn"
TypedChildren == "TypedChildren"
ViewFn == "ViewFn"
\* The `impl FnOnce() -> View<T>` that TypedChildren::into_inner returns.
TypedInner == "TypedInner"

\* Arc-backed kinds can be cloned; the others are a Box with one owner.
IsArc(kind) == kind \in {ChildrenFn, ViewFn}
\* Kinds behind `dyn FnOnce`: calling takes the wrapper by value.
IsCallOnce(kind) == kind \in {Children, TypedInner}
\* Kinds behind `dyn Fn` / `dyn FnMut`: calling borrows the wrapper.
IsRepeatable(kind) == kind \in {ChildrenFn, ChildrenFnMut, BoxedChildrenFn, ViewFn}

NoAlloc == [kind |-> "none", f |-> UnitClosure, strong |-> 0, taken |-> 0]
NoHolder == [st |-> "none", a |-> 0, parent |-> 0]

\* ------------------------------------------------- the users' closures
\* The closures the model draws from: one in three is Fn and captures a Cell
\* counter it bumps on every call, one in three is FnOnce only (it moves a
\* captured value out), the others are Fn and pure.
Stateful(f) == f % 3 = 1
FnOnceOnly(f) == f % 3 = 2

\* The value C the body of f returns when its captured state is s.
BodyResult(f, s) == [from |-> f, n |-> IF Stateful(f) THEN s ELSE 0]
\* The captured state the body of f leaves behind.
BodyNext(f, s) == IF Stateful(f) THEN s + 1 ELSE s

\* The captured state of f after k direct calls of f, from a fresh f.
RECURSIVE StateAfter(_, _)
StateAfter(f, k) == IF k = 0 THEN 0 ELSE BodyNext(f, StateAfter(f, k - 1))
\* What the k-th direct call of a fresh f returns (k >= 1).
DirectResult(f, k) == BodyResult(f, StateAfter(f, k - 1))

\* ------------------------------------------------------ the conversions
UnitValue == [from |-> UnitClosure, n |-> 0]
\* IntoAny::into_any: the value behind a type-erased AnyView.
IntoAny(c) == [erased |-> TRUE, inner |-> c]
\* IntoView::into_view: the value inside a typed View<C>.
IntoView(c) == [erased |-> FALSE, inner |-> c]

\* The bounds `F: FnOnce() -> C` / `F: Fn() -> C` of the impls.
WellTyped(kind, f) ==
    IF kind \in {Children, TypedChildren} THEN TRUE ELSE ~FnOnceOnly(f)

\* ------------------------------------------------------------ allocation
FreeAllocs == {a \in Allocs : heap[a].kind = "none"}
FreeHolders == {h \in Holders : holder[h].st = "none"}
NewAlloc == CHOOSE a \in FreeAllocs : \A b \in FreeAllocs : a <= b
NewHolder == CHOOSE h \in FreeHolders : \A g \in FreeHolders : h <= g
LiveOn(a) == {h \in Holders : holder[h].st = "live" /\ holder[h].a = a}

Init ==
    /\ where = [f \in Closures |-> "user"]
    /\ cell = [f \in Closures |-> 0]
    /\ runs = [f \in Closures |-> 0]
    /\ heap = [a \in Allocs |-> NoAlloc]
    /\ holder = [h \in Holders |-> NoHolder]
    /\ results = <<>>
    /\ effects = <<>>

\* Mutant: the conversion calls f at once and boxes a closure over the view.
Wrap_Eager(kind, f) ==
    /\ where[f] = "user"
    /\ WellTyped(kind, f)
    /\ FreeAllocs # {}
    /\ FreeHolders # {}
    /\ heap' = [heap EXCEPT ![NewAlloc] =
                    [kind |-> kind, f |-> f, strong |-> 1, taken |-> 0]]
    /\ holder' = [holder EXCEPT ![NewHolder] =
                    [st |-> "live", a |-> NewAlloc, parent |-> 0]]
    /\ where' = [where EXCEPT ![f] = "moved"]
    /\ runs' = [runs EXCEPT ![f] = @ + 1]
    /\ cell' = [cell EXCEPT ![f] = BodyNext(f, cell[f])]
    /\ effects' = Append(effects, [f |-> f, n |-> cell[f]])
    /\ UNCHANGED results

\* Box::new / Arc::new around `move || f()...`: f moves into the wrapper.
Wrap(kind, f) ==
    /\ where[f] = "user"
    /\ WellTyped(kind, f)
    /\ FreeAllocs # {}
    /\ FreeHolders # {}
    /\ heap' = [heap EXCEPT ![NewAlloc] =
                    [kind |-> kind, f |-> f, strong |-> 1, taken |-> 0]]
    /\ holder' = [holder EXCEPT ![NewHolder] =
                    [st |-> "live", a |-> NewAlloc, parent |-> 0]]
    /\ where' = [where EXCEPT ![f] = "moved"]
    /\ UNCHANGED <<cell, runs, results, effects>>

ToChildren_TypedChildren(f) == Wrap(TypedChildren, f)
ToChildren_Children(f) == Wrap(Children, f)
ToChildren_ChildrenFn(f) == Wrap(ChildrenFn, f)
ToChildren_ChildrenFnMut(f) == Wrap(ChildrenFnMut, f)
\* Mutant: a conversion that can fail, giving up a stateful closure without
\* returning a wrapper.
ToChildren_BoxedChildrenFn_Fallible(f) ==
    IF Stateful(f)
    THEN /\ where[f] = "user"
         /\ where' = [where EXCEPT ![f] = "dropped"]
         /\ UNCHANGED <<cell, runs, heap, holder, results, effects>>
    ELSE Wrap(BoxedChildrenFn, f)
ToChildren_BoxedChildrenFn(f) == Wrap(BoxedChildrenFn, f)
ViewFn_from(f) == Wrap(ViewFn, f)

\* `Self(Arc::new(|| ().into_any()))`: a wrapper around no user closure.
ViewFn_default ==
    /\ FreeAllocs # {}
    /\ FreeHolders # {}
    /\ heap' = [heap EXCEPT ![NewAlloc] =
                    [kind |-> ViewFn, f |-> UnitClosure, strong |-> 1, taken |-> 0]]
    /\ holder' = [holder EXCEPT ![NewHolder] =
                    [st |-> "live", a |-> NewAlloc, parent |-> 0]]
    /\ UNCHANGED <<where, cell, runs, results, effects>>

\* ------------------------------------------- the closures the wrappers hold
\* Mutant: the typed wrapper erases the view like the other kinds.
TypedChildren_closure_erased(c) == IntoAny(c)
\* `move || f().into_view()`, given the value c that f() returned.
TypedChildren_closure(c) == IntoView(c)
\* Mutant: the adapter drops what f returned and yields the empty view.
Children_closure_unit(c) == IntoAny(UnitValue)
\* `move || f().into_any()` of the four erased children kinds.
Children_closure(c) == IntoAny(c)
ChildrenFn_closure(c) == IntoAny(c)
ChildrenFnMut_closure(c) == IntoAny(c)
BoxedChildrenFn_closure(c) == IntoAny(c)
\* `move || value().into_any()` of ViewFn::from.
ViewFn_closure(c) == IntoAny(c)
\* Mutant: the default view factory renders a leftover, non-empty view.
Default_closure_nonempty == IntoAny(BodyResult(1, 0))
\* `|| ().into_any()` of ViewFn::default.
Default_closure == IntoAny(UnitValue)

WrapperView(kind, c) ==
    CASE kind = TypedInner -> TypedChildren_closure(c)
      [] kind = Children -> Children_closure(c)
      [] kind = ChildrenFn -> ChildrenFn_closure(c)
      [] kind = ChildrenFnMut -> ChildrenFnMut_closure(c)
      [] kind = BoxedChildrenFn -> BoxedChildrenFn_closure(c)
      [] kind = ViewFn -> ViewFn_closure(c)

\* One run of the body of f: its side effect and its captured state.
RunBody(f) ==
    /\ runs' = [runs EXCEPT ![f] = @ + 1]
    /\ cell' = [cell EXCEPT ![f] = BodyNext(f, cell[f])]
    /\ effects' = Append(effects, [f |-> f, n |-> cell[f]])

\* Mutant: the wrapper memoises the first view and never runs f again.
Invoke_Cached(h, a) ==
    LET f == heap[a].f IN
    IF runs[f] = 0
    THEN /\ RunBody(f)
         /\ results' = Append(results,
                [h |-> h, a |-> a, f |-> f, run |-> 1,
                 view |-> WrapperView(heap[a].kind, BodyResult(f, cell[f]))])
    ELSE /\ results' = Append(results,
                [h |-> h, a |-> a, f |-> f, run |-> 1,
                 view |-> WrapperView(heap[a].kind, BodyResult(f, 0))])
         /\ UNCHANGED <<runs, cell, effects>>

\* The wrapper's closure runs: f(), then the conversion of what f returned.
\* `run` is the run of f that built the returned view.
Invoke(h, a) ==
    LET f == heap[a].f IN
    /\ RunBody(f)
    /\ results' = Append(results,
            [h |-> h, a |-> a, f |-> f, run |-> runs[f] + 1,
             view |-> WrapperView(heap[a].kind, BodyResult(f, cell[f]))])

CanCall(h) ==
    /\ holder[h].st = "live"
    /\ Len(results) < MaxCalls

\* Mutant: the call-once box is called by reference and survives the call.
CallOnce_Borrowing(h) ==
    LET a == holder[h].a IN
    /\ CanCall(h)
    /\ IsCallOnce(heap[a].kind)
    /\ Invoke(h, a)
    /\ UNCHANGED <<where, heap, holder>>

\* Calling a Box<dyn FnOnce()> takes it by value: the box, and the closure
\* moved into it, are gone after the call.
CallOnce(h) ==
    LET a == holder[h].a IN
    /\ CanCall(h)
    /\ IsCallOnce(heap[a].kind)
    /\ Invoke(h, a)
    /\ holder' = [holder EXCEPT ![h].st = "called"]
    /\ heap' = [heap EXCEPT ![a].strong = 0]
    /\ where' = [where EXCEPT ![heap[a].f] = "dropped"]

\* Calling an Arc<dyn Fn()> or a Box<dyn Fn()> borrows it.
CallFn(h) ==
    LET a == holder[h].a IN
    /\ CanCall(h)
    /\ heap[a].kind \in {ChildrenFn, BoxedChildrenFn}
    /\ Invoke(h, a)
    /\ UNCHANGED <<where, heap, holder>>

\* Mutant: every call runs a fresh copy of f, so f's state never persists.
CallFnMut_Fresh(h) ==
    LET a == holder[h].a
        f == heap[a].f IN
    /\ CanCall(h)
    /\ heap[a].kind = ChildrenFnMut
    /\ runs' = [runs EXCEPT ![f] = @ + 1]
    /\ cell' = [cell EXCEPT ![f] = BodyNext(f, 0)]
    /\ effects' = Append(effects, [f |-> f, n |-> 0])
    /\ results' = Append(results,
            [h |-> h, a |-> a, f |-> f, run |-> runs[f] + 1,
             view |-> WrapperView(heap[a].kind, BodyResult(f, 0))])
    /\ UNCHANGED <<where, heap, holder>>

\* Calling a Box<dyn FnMut()> borrows it mutably.
CallFnMut(h) ==
    LET a == holder[h].a IN
    /\ CanCall(h)
    /\ heap[a].kind = ChildrenFnMut
    /\ Invoke(h, a)
    /\ UNCHANGED <<where, heap, holder>>

\* Mutant: run takes the closure out of the ViewFn and leaves the default.
ViewFn_run_Taking(h) ==
    LET a == holder[h].a IN
    /\ CanCall(h)
    /\ heap[a].kind = ViewFn
    /\ heap[a].f # UnitClosure
    /\ Invoke(h, a)
    /\ heap' = [heap EXCEPT ![a].f = UnitClosure]
    /\ UNCHANGED <<where, holder>>

\* ViewFn::run: `(self.0)()`.
ViewFn_run(h) ==
    LET a == holder[h].a IN
    /\ CanCall(h)
    /\ heap[a].kind = ViewFn
    /\ IF heap[a].f = UnitClosure
       THEN /\ results' = Append(results,
                    [h |-> h, a |-> a, f |-> UnitClosure, run |-> 0,
                     view |-> Default_closure])
            /\ UNCHANGED <<runs, cell, effects>>
       ELSE Invoke(h, a)
    /\ UNCHANGED <<where, heap, holder>>

\* TypedChildren::into_inner: `self.0`, the box moves out of the struct.
into_inner(h) ==
    LET a == holder[h].a IN
    /\ holder[h].st = "live"
    /\ heap[a].kind = TypedChildren
    /\ heap' = [heap EXCEPT ![a].kind = TypedInner, ![a].taken = @ + 1]
    /\ UNCHANGED <<where, cell, runs, holder, results, effects>>

\* Mutant: a clone that shares the allocation without counting itself.
Clone_Uncounted(h) ==
    LET a == holder[h].a IN
    /\ holder[h].st = "live"
    /\ IsArc(heap[a].kind)
    /\ FreeHolders # {}
    /\ holder' = [holder EXCEPT ![NewHolder] =
                    [st |-> "live", a |-> a, parent |-> h]]
    /\ UNCHANGED <<where, cell, runs, heap, results, effects>>

\* Arc::clone (ChildrenFn) and the derived Clone of ViewFn: one more owner
\* of the same allocation.
Clone(h) ==
    LET a == holder[h].a IN
    /\ holder[h].st = "live"
    /\ IsArc(heap[a].kind)
    /\ FreeHolders # {}
    /\ holder' = [holder EXCEPT ![NewHolder] =
                    [st |-> "live", a |-> a, parent |-> h]]
    /\ heap' = [heap EXCEPT ![a].strong = @ + 1]
    /\ UNCHANGED <<where, cell, runs, results, effects>>

\* Dropping an owner; the last owner's drop drops the closure.
Drop(h) ==
    LET a == holder[h].a
        f == heap[a].f IN
    /\ holder[h].st = "live"
    /\ holder' = [holder EXCEPT ![h].st = "dropped"]
    /\ heap' = [heap EXCEPT ![a].strong = @ - 1]
    /\ where' = IF heap[a].strong = 1 /\ f # UnitClosure
                THEN [where EXCEPT ![f] = "dropped"]
                ELSE where
    /\ UNCHANGED <<cell, runs, results, effects>>

Next ==
    \/ \E f \in Closures : ToChildren_TypedChildren(f)
    \/ \E f \in Closures : ToChildren_Children(f)
    \/ \E f \in Closures : ToChildren_ChildrenFn(f)
    \/ \E f \in Closures : ToChildren_ChildrenFnMut(f)
    \/ \E f \in Closures : ToChildren_BoxedChildrenFn(f)
    \/ \E f \in Closures : ViewFn_from(f)
    \/ ViewFn_default
    \/ \E h \in Holders : CallOnce(h)
    \/ \E h \in Holders : CallFn(h)
    \/ \E h \in Holders : CallFnMut(h)
    \/ \E h \in Holders : ViewFn_run(h)
    \/ \E h \in Holders : into_inner(h)
    \/ \E h \in Holders : Clone(h)
    \/ \E h \in Holders : Drop(h)

Spec == Init /\ [][Next]_vars

\* ------------------------------------------------------- reading the log
Calls == 1..Len(results)
\* The invocations made through allocation a.
CallsOf(a) == {i \in Calls : results[i].a = a}
\* results[i] is the Rank(a, i)-th invocation of the wrapper a.
Rank(a, i) == Cardinality({j \in CallsOf(a) : j <= i})
Wrappers == {a \in Allocs : heap[a].kind # "none"}
\* The wrappers around a user closure (all but those of ViewFn::default).
UserWrappers == {a \in Wrappers : heap[a].f # UnitClosure}
\* The conversion the wrapper kind promises: into_view for the typed kind,
\* into_any for the erased ones.
Promised(kind, c) ==
    IF kind \in {TypedChildren, TypedInner} THEN IntoView(c) ELSE IntoAny(c)

\* C1: the closure behind a call-once wrapper (Children, TypedChildren and
\* the closure into_inner returns) has run at most once; the wrapper has
\* been invoked at most once; once it has been invoked its closure has run
\* exactly once and no owner is left through which it could be invoked again.
C1_CallOnceRunsAtMostOnce ==
    \A a \in UserWrappers :
        heap[a].kind \in {Children, TypedChildren, TypedInner} =>
            /\ runs[heap[a].f] <= 1
            /\ Cardinality(CallsOf(a)) = runs[heap[a].f]
            /\ CallsOf(a) # {} =>
                  /\ LiveOn(a) = {}
                  /\ where[heap[a].f] = "dropped"

C1_Witness ==
    \E a \in UserWrappers :
        /\ heap[a].kind = Children
        /\ CallsOf(a) # {}
        /\ runs[heap[a].f] = 1

\* C2: after n invocations of a repeatable wrapper built from f, f has run
\* exactly n times, and the k-th invocation returned the view built by the
\* k-th run of f (so no two invocations share a view).
C2_RepeatableRunsPerCall ==
    \A a \in UserWrappers :
        IsRepeatable(heap[a].kind) =>
            /\ runs[heap[a].f] = Cardinality(CallsOf(a))
            /\ \A i \in CallsOf(a) : results[i].run = Rank(a, i)
            /\ \A i, j \in CallsOf(a) : i # j => results[i].run # results[j].run

C2_Witness ==
    \E a \in UserWrappers :
        /\ heap[a].kind \in {ChildrenFn, BoxedChildrenFn, ViewFn}
        /\ Cardinality(CallsOf(a)) >= 2
        /\ runs[heap[a].f] >= 2

\* The side effects that the direct calls of the closures leave, when the
\* closures are called directly in the order of the log.
RECURSIVE DirectEffects(_)
DirectEffects(n) ==
    IF n = 0 THEN <<>>
    ELSE IF results[n].f = UnitClosure THEN DirectEffects(n - 1)
    ELSE Append(DirectEffects(n - 1),
                [f |-> results[n].f,
                 n |-> StateAfter(results[n].f, Rank(results[n].a, n) - 1)])

\* C3: adapter transparency.  For every wrapper built from a closure f, after
\* k invocations f has run k times, the i-th invocation returned what the
\* i-th direct call of f returns, converted by into_any (into_view for
\* TypedChildren), and the side effects are those of the direct calls, in
\* the same order.
C3_AdapterTransparency ==
    /\ \A a \in UserWrappers :
          /\ runs[heap[a].f] = Cardinality(CallsOf(a))
          /\ \A i \in CallsOf(a) :
                /\ results[i].f = heap[a].f
                /\ results[i].view =
                      Promised(heap[a].kind, DirectResult(heap[a].f, Rank(a, i)))
    /\ effects = DirectEffects(Len(results))

C3_Witness ==
    \E a, b \in UserWrappers :
        /\ a # b
        /\ Stateful(heap[a].f)
        /\ Cardinality(CallsOf(a)) >= 2
        /\ CallsOf(b) # {}
        /\ Len(effects) >= 3

RECURSIVE SumRuns(_)
SumRuns(n) == IF n = 0 THEN 0 ELSE runs[n] + SumRuns(n - 1)
\* The wrappers that ViewFn::default built.
DefaultWrappers == {a \in Wrappers : heap[a].f = UnitClosure}

\* C4: every run of a ViewFn that came from ViewFn::default, through the
\* original or any clone, returns the erased unit view, and runs no user
\* closure: the closures' runs are exactly the invocations of the wrappers
\* around user closures.
C4_DefaultViewFnIsEmpty ==
    /\ \A a \in DefaultWrappers :
          /\ heap[a].kind = ViewFn
          /\ \A i \in CallsOf(a) :
                /\ results[i].view = IntoAny(UnitValue)
                /\ results[i].f = UnitClosure
    /\ SumRuns(NumClosures) =
          Cardinality({i \in Calls : results[i].a \notin DefaultWrappers})
    /\ Len(effects) = SumRuns(NumClosures)

C4_Witness ==
    \E a \in DefaultWrappers :
        \E i, j \in CallsOf(a) :
            /\ results[i].h # results[j].h
            /\ holder[results[j].h].parent = results[i].h
            /\ Cardinality(CallsOf(a)) >= 3

\* C5: shared ownership.  An Arc-backed wrapper (ChildrenFn, ViewFn) counts
\* exactly its live owners; while one owner is left the closure is still
\* owned by the wrapper (not dropped, not consumed), every clone refers to
\* the allocation of the owner it was cloned from, each closure moved into a
\* wrapper is held by exactly one allocation, and every invocation through
\* any owner ran the one closure of the allocation.
C5_SharedOwnership ==
    /\ \A a \in Wrappers :
          IsArc(heap[a].kind) =>
              /\ heap[a].strong = Cardinality(LiveOn(a))
              /\ \A i \in CallsOf(a) : results[i].f = heap[a].f
              /\ (LiveOn(a) # {} /\ heap[a].f # UnitClosure) =>
                    where[heap[a].f] = "moved"
    /\ \A h \in Holders :
          holder[h].parent # 0 =>
              /\ holder[holder[h].parent].a = holder[h].a
              /\ IsArc(heap[holder[h].a].kind)
    /\ \A f \in Closures :
          where[f] = "moved" =>
              Cardinality({a \in Wrappers :
                              heap[a].f = f /\ heap[a].strong > 0}) = 1

C5_Witness ==
    \E a \in UserWrappers, h, g \in Holders :
        /\ IsArc(heap[a].kind)
        /\ holder[g].parent = h
        /\ holder[h].st = "dropped"
        /\ holder[g].st = "live"
        /\ \E i, j \in CallsOf(a) :
              /\ i < j
              /\ results[i].h = h
              /\ results[j].h = g

\* C8: a ChildrenFnMut can be invoked repeatedly (an invocation never uses
\* it up), and the state f captures persists from one invocation to the
\* next: the k-th invocation returns what the k-th direct call of f returns,
\* and f's state is the state k direct calls leave.
C8_FnMutStatePersists ==
    \A a \in UserWrappers :
        heap[a].kind = ChildrenFnMut =>
            /\ \A h \in Holders :
                  (holder[h].a = a /\ holder[h].st # "none") =>
                      holder[h].st \in {"live", "dropped"}
            /\ \A i \in CallsOf(a) :
                  results[i].view =
                      IntoAny(DirectResult(heap[a].f, Rank(a, i)))
            /\ cell[heap[a].f] =
                  StateAfter(heap[a].f, Cardinality(CallsOf(a)))

C8_Witness ==
    \E a \in UserWrappers :
        /\ heap[a].kind = ChildrenFnMut
        /\ Stateful(heap[a].f)
        /\ LiveOn(a) # {}
        /\ \E i, j \in CallsOf(a) :
              /\ i < j
              /\ results[i].view # results[j].view
              /\ results[j].view.inner.n = results[i].view.inner.n + 1

\* C10: a TypedChildren gives up its closure at most once (into_inner takes
\* the TypedChildren by value) and cannot be invoked before that; the
\* closure it gives up runs f at most once, and its invocation returns
\* f's result converted by into_view, a typed view and not an erased one.
C10_TypedChildren ==
    \A a \in UserWrappers :
        heap[a].kind \in {TypedChildren, TypedInner} =>
            /\ heap[a].taken = (IF heap[a].kind = TypedInner THEN 1 ELSE 0)
            /\ heap[a].kind = TypedChildren => CallsOf(a) = {}
            /\ Cardinality(CallsOf(a)) <= 1
            /\ runs[heap[a].f] = Cardinality(CallsOf(a))
            /\ \A i \in CallsOf(a) :
                  /\ results[i].view = IntoView(DirectResult(heap[a].f, 1))
                  /\ results[i].view.erased = FALSE
                  /\ LiveOn(a) = {}

C10_Witness ==
    \E a \in UserWrappers :
        /\ heap[a].kind = TypedInner
        /\ heap[a].taken = 1
        /\ CallsOf(a) # {}
        /\ runs[heap[a].f] = 1

WrapperKinds ==
    {TypedChildren, Children, ChildrenFn, ChildrenFnMut, BoxedChildrenFn, ViewFn}
HasRoom == FreeAllocs # {} /\ FreeHolders # {}

\* C6: every conversion is total.  Whenever the user holds a closure that
\* satisfies the trait bound of a conversion, the conversion can be taken
\* (so can ViewFn::default, and into_inner on every TypedChildren), and
\* every closure that left the user's hands did so into a wrapper: no
\* conversion ends without one.
C6_ConversionsTotal ==
    /\ \A f \in Closures :
          (where[f] = "user" /\ HasRoom) =>
              /\ ENABLED ToChildren_TypedChildren(f)
              /\ ENABLED ToChildren_Children(f)
              /\ ~FnOnceOnly(f) =>
                    /\ ENABLED ToChildren_ChildrenFn(f)
                    /\ ENABLED ToChildren_ChildrenFnMut(f)
                    /\ ENABLED ToChildren_BoxedChildrenFn(f)
                    /\ ENABLED ViewFn_from(f)
    /\ HasRoom => ENABLED ViewFn_default
    /\ \A h \in Holders :
          (holder[h].st = "live" /\ heap[holder[h].a].kind = TypedChildren) =>
              ENABLED into_inner(h)
    /\ \A f \in Closures :
          where[f] # "user" =>
              \E a \in Wrappers : heap[a].f = f /\ heap[a].kind \in
                                      WrapperKinds \cup {TypedInner}
    /\ \A a \in Wrappers :
          heap[a].f # UnitClosure =>
              /\ where[heap[a].f] # "user"
              /\ WellTyped(IF heap[a].kind = TypedInner THEN TypedChildren
                           ELSE heap[a].kind, heap[a].f)

C6_Witness ==
    \E a, b \in UserWrappers :
        /\ heap[a].kind = TypedInner
        /\ FnOnceOnly(heap[a].f)
        /\ heap[b].kind = BoxedChildrenFn
        /\ LiveOn(a) # {}
        /\ LiveOn(b) # {}

\* The step is an invocation made through holder h.
CallStep(h) ==
    /\ Len(results') = Len(results) + 1
    /\ results'[Len(results')].h = h

\* C7: an invocation through h of the wrapper a around f changes nothing
\* but what the run of f changes (f's runs, state and effects) and the log
\* of returned views: every other wrapper, owner and closure is unchanged;
\* a repeatable wrapper and its owner are unchanged, holding the same
\* closure; a call-once wrapper is only used up, still around the same
\* closure; the wrapper of ViewFn::default touches no closure at all.
C7_WrappersAreStateless ==
    [][\A h \in Holders :
          CallStep(h) =>
              LET a == holder[h].a
                  f == heap[a].f
              IN  /\ \A b \in Allocs \ {a} : heap'[b] = heap[b]
                  /\ \A g \in Holders \ {h} : holder'[g] = holder[g]
                  /\ \A g \in Closures \ {f} :
                        /\ runs'[g] = runs[g]
                        /\ cell'[g] = cell[g]
                        /\ where'[g] = where[g]
                  /\ heap'[a].f = f
                  /\ heap'[a].kind = heap[a].kind
                  /\ IsRepeatable(heap[a].kind) =>
                        /\ heap'[a] = heap[a]
                        /\ holder'[h] = holder[h]
                        /\ where' = where
                  /\ f = UnitClosure => UNCHANGED <<runs, cell, effects>>
                  /\ SubSeq(results', 1, Len(results)) = results
      ]_vars

C7_Witness ==
    \E a, b \in UserWrappers :
        /\ a # b
        /\ IsRepeatable(heap[a].kind)
        /\ Cardinality(CallsOf(a)) >= 2
        /\ CallsOf(b) = {}
        /\ LiveOn(a) # {}
        /\ LiveOn(b) # {}

\* C9: conversion is lazy.  A step that is no invocation (to_children,
\* ViewFn::from, ViewFn::default, a clone, into_inner, a drop) runs no
\* closure; a closure's run count only grows, by one, at an invocation of
\* the wrapper that holds it, and is 0 while that wrapper was never invoked.
C9_ConversionIsLazy ==
    [][/\ results' = results => UNCHANGED <<runs, cell, effects>>
       /\ \A f \in Closures :
             runs'[f] # runs[f] =>
                 /\ runs'[f] = runs[f] + 1
                 /\ Len(results') = Len(results) + 1
                 /\ results'[Len(results')].f = f
                 /\ holder[results'[Len(results')].h].st = "live"
       /\ \A f \in Closures :
             {i \in 1..Len(results') : results'[i].f = f} = {} => runs'[f] = 0
      ]_vars

C9_Witness ==
    \E a, b \in UserWrappers :
        /\ heap[a].kind = TypedInner
        /\ IsArc(heap[b].kind)
        /\ runs[heap[a].f] = 0
        /\ runs[heap[b].f] = 0
        /\ results = <<>>
====
